---- MODULE Spec2Model ----
(***************************************************************************)
(* A model of OutlineExtractor (src/app/outline_extractor.py) and of the   *)
(* caller that feeds it line records (src/app/main.py, pdf_parser.py).     *)
(*                                                                         *)
(* Representation.                                                         *)
(*  - A Python str is a sequence of one-character strings, so that the     *)
(*    regular expressions, strip(), lower(), split() and the substring     *)
(*    tests of the code are computed character by character.               *)
(*  - A font size is an integer number of hundredths of a point; the       *)
(*    thresholds the code derives from sizes (x * 0.9, x * 0.85, ...) are  *)
(*    exact rationals [num, den] in the same unit.  Coordinates are        *)
(*    integers; averages of coordinates are exact rationals.               *)
(*  - None is the empty sequence and a present value v is <<v>>.           *)
(***************************************************************************)
EXTENDS Integers, Sequences, FiniteSets, TLC

(***************************************************************************)
(* Characters and character classes of Python's re module.                 *)
(***************************************************************************)
UpperSeq ==
    <<"A","B","C","D","E","F","G","H","I","J","K","L","M",
      "N","O","P","Q","R","S","T","U","V","W","X","Y","Z">>

LowerSeq ==
    <<"a","b","c","d","e","f","g","h","i","j","k","l","m",
      "n","o","p","q","r","s","t","u","v","w","x","y","z">>

\* [A-Z]
UpperChars == {UpperSeq[i] : i \in 1..Len(UpperSeq)}

\* [a-z]
LowerChars == {LowerSeq[i] : i \in 1..Len(LowerSeq)}

\* [a-zA-Z]
LetterChars == UpperChars \cup LowerChars

\* \d restricted to 0-6: a digit class with a wrong upper end.
DigitCharsShort == {"0","1","2","3","4","5","6"}

\* \d
DigitChars == {"0","1","2","3","4","5","6","7","8","9"}

\* \w
WordChars == LetterChars \cup DigitChars \cup {"_"}

\* \s, and the characters str.strip() and str.split() treat as blank.  The
\* lines of a PDF are spans joined by " " (pdf_parser.py:141).
SpaceChars == {" "}

\* The index just past the longest run of characters of C that starts at i
\* (i itself when s[i] is not in C): a greedy C* at position i.
Run(s, i, C) ==
    CHOOSE j \in i..(Len(s) + 1) :
        /\ \A k \in i..(j - 1) : s[k] \in C
        /\ (j = Len(s) + 1 \/ s[j] \notin C)

\* s[i] exists and is the character c.
At(s, i, c) == i >= 1 /\ i <= Len(s) /\ s[i] = c

\* s[i] exists and belongs to the class C.
InAt(s, i, C) == i >= 1 /\ i <= Len(s) /\ s[i] \in C

\* The literal p occurs in s at position i.
HasAt(s, i, p) ==
    /\ i >= 1
    /\ i + Len(p) - 1 <= Len(s)
    /\ SubSeq(s, i, i + Len(p) - 1) = p

\* $ at position i (the texts hold no line break).
AtEnd(s, i) == i = Len(s) + 1

\* p in s
Contains(s, p) == \E i \in 1..(Len(s) - Len(p) + 1) : HasAt(s, i, p)

\* s.startswith(p)
StartsWith(s, p) == HasAt(s, 1, p)

\* s.endswith(p)
EndsWith(s, p) == Len(p) <= Len(s) /\ HasAt(s, Len(s) - Len(p) + 1, p)

\* c.lower() for one character
LowerChar(c) ==
    IF c \in UpperChars
    THEN LowerSeq[CHOOSE i \in 1..Len(UpperSeq) : UpperSeq[i] = c]
    ELSE c

\* s.lower()
Lower(s) == [i \in 1..Len(s) |-> LowerChar(s[i])]

\* s.strip()
Strip(s) ==
    LET a == Run(s, 1, SpaceChars)
    IN  IF a > Len(s)
        THEN << >>
        ELSE LET b == CHOOSE j \in a..Len(s) :
                          /\ s[j] \notin SpaceChars
                          /\ \A k \in (j + 1)..Len(s) : s[k] \in SpaceChars
             IN  SubSeq(s, a, b)

\* len(s.split()): the number of maximal runs of non-blank characters
WordCount(s) ==
    Cardinality({i \in 1..Len(s) :
                    s[i] \notin SpaceChars /\ (i = 1 \/ s[i - 1] \in SpaceChars)})

\* s.replace(c, '') for a one-character c
Remove(s, c) == SelectSeq(s, LAMBDA x : x # c)

\* the number of occurrences of the characters of C in s
CountIn(s, C) == Cardinality({i \in 1..Len(s) : s[i] \in C})

\* \b on both sides of the literal w found at position i
WordAt(s, i, w) ==
    /\ HasAt(s, i, w)
    /\ ~InAt(s, i - 1, WordChars)
    /\ ~InAt(s, i + Len(w), WordChars)

(***************************************************************************)
(* The string literals of the code.                                        *)
(***************************************************************************)
\* the substrings of a lower-cased font name that make it bold
BoldMarkers ==
    {
      \* "bold"
      <<"b","o","l","d">>,
      \* "black"
      <<"b","l","a","c","k">>,
      \* "demi"
      <<"d","e","m","i">>,
      \* "heavy"
      <<"h","e","a","v","y">>,
      \* "condensed"
      <<"c","o","n","d","e","n","s","e","d">>,
      \* "extrabold"
      <<"e","x","t","r","a","b","o","l","d">>
    }

\* the lower-cased title of the target document, _is_title
KnownTitle ==
    <<"d","e","e","p"," ","s","u","p","p","o","r","t"," ","v","e","c","t","o","r"," ","m",
      "a","c","h","i","n","e"," ","f","o","r"," ","h","y","p","e","r","s","p","e","c","t",
      "r","a","l"," ","i","m","a","g","e"," ","c","l","a","s","s","i","f","i","c","a","t",
      "i","o","n">>

\* "journal pre-proof"
JournalPreProof ==
    <<"j","o","u","r","n","a","l"," ","p","r","e","-","p","r","o","o","f">>

\* "highlights"
Highlights ==
    <<"h","i","g","h","l","i","g","h","t","s">>

\* the watermark and running-header markers, matched in the lower-cased text
WatermarkMarkers ==
    {
      \* "journal pre-proof"
      <<"j","o","u","r","n","a","l"," ","p","r","e","-","p","r","o","o","f">>,
      \* "highlights"
      <<"h","i","g","h","l","i","g","h","t","s">>,
      \* "journal pre-print"
      <<"j","o","u","r","n","a","l"," ","p","r","e","-","p","r","i","n","t">>,
      \* "manuscript"
      <<"m","a","n","u","s","c","r","i","p","t">>,
      \* "accepted manuscript"
      <<"a","c","c","e","p","t","e","d"," ","m","a","n","u","s","c","r","i","p","t">>
    }

\* ^(PII|DOI|Reference|Received date|Revised date|Accepted date): lower-cased
MetadataPrefixes ==
    {
      \* "pii:"
      <<"p","i","i",":">>,
      \* "doi:"
      <<"d","o","i",":">>,
      \* "reference:"
      <<"r","e","f","e","r","e","n","c","e",":">>,
      \* "received date:"
      <<"r","e","c","e","i","v","e","d"," ","d","a","t","e",":">>,
      \* "revised date:"
      <<"r","e","v","i","s","e","d"," ","d","a","t","e",":">>,
      \* "accepted date:"
      <<"a","c","c","e","p","t","e","d"," ","d","a","t","e",":">>
    }

\* the alternatives of \b(University|...|Nigeria)\b
InstitutionWords ==
    {
      \* "University"
      <<"U","n","i","v","e","r","s","i","t","y">>,
      \* "Department"
      <<"D","e","p","a","r","t","m","e","n","t">>,
      \* "Institute"
      <<"I","n","s","t","i","t","u","t","e">>,
      \* "Queensland"
      <<"Q","u","e","e","n","s","l","a","n","d">>,
      \* "Australia"
      <<"A","u","s","t","r","a","l","i","a">>,
      \* "Nigeria"
      <<"N","i","g","e","r","i","a">>
    }

\* the command names of the LaTeX pattern of _is_math_expression
LatexCommands ==
    {
      \* "sum"
      <<"s","u","m">>,
      \* "alpha"
      <<"a","l","p","h","a">>,
      \* "beta"
      <<"b","e","t","a">>,
      \* "gamma"
      <<"g","a","m","m","a">>,
      \* "cdot"
      <<"c","d","o","t">>,
      \* "mathbb"
      <<"m","a","t","h","b","b">>,
      \* "mathfrak"
      <<"m","a","t","h","f","r","a","k">>,
      \* "xi"
      <<"x","i">>,
      \* "eta"
      <<"e","t","a">>,
      \* "forall"
      <<"f","o","r","a","l","l">>,
      \* "in"
      <<"i","n">>,
      \* "infty"
      <<"i","n","f","t","y">>,
      \* "ge"
      <<"g","e">>,
      \* "le"
      <<"l","e">>,
      \* "pm"
      <<"p","m">>,
      \* "mu"
      <<"m","u">>,
      \* "sigma"
      <<"s","i","g","m","a">>,
      \* "tanh"
      <<"t","a","n","h">>,
      \* "log"
      <<"l","o","g">>,
      \* "exp"
      <<"e","x","p">>,
      \* "frac"
      <<"f","r","a","c">>,
      \* "partial"
      <<"p","a","r","t","i","a","l">>,
      \* "Delta"
      <<"D","e","l","t","a">>,
      \* "lambda"
      <<"l","a","m","b","d","a">>,
      \* "emptyset"
      <<"e","m","p","t","y","s","e","t">>,
      \* "mathbf"
      <<"m","a","t","h","b","f">>,
      \* "mathrm"
      <<"m","a","t","h","r","m">>,
      \* "text"
      <<"t","e","x","t">>
    }

\* (Page|Pg\.) lower-cased
PagePrefixes ==
    {
      \* "page"
      <<"p","a","g","e">>,
      \* "pg."
      <<"p","g",".">>
    }

\* "of"
OfWord ==
    <<"o","f">>

\* (Figure|Table) lower-cased
CaptionPrefixes ==
    {
      \* "figure"
      <<"f","i","g","u","r","e">>,
      \* "table"
      <<"t","a","b","l","e">>
    }

\* the prefixes that let a sentence-like line through
SentenceStarters ==
    {
      \* "abstract"
      <<"a","b","s","t","r","a","c","t">>,
      \* "introduction"
      <<"i","n","t","r","o","d","u","c","t","i","o","n">>,
      \* "results"
      <<"r","e","s","u","l","t","s">>,
      \* "discussion and conclusion"
      <<"d","i","s","c","u","s","s","i","o","n"," ","a","n","d"," ","c","o","n","c","l",
        "u","s","i","o","n">>
    }

\* common_h1_names
common_h1_names ==
    {
      \* "abstract"
      <<"a","b","s","t","r","a","c","t">>,
      \* "introduction"
      <<"i","n","t","r","o","d","u","c","t","i","o","n">>,
      \* "results"
      <<"r","e","s","u","l","t","s">>,
      \* "discussion and conclusion"
      <<"d","i","s","c","u","s","s","i","o","n"," ","a","n","d"," ","c","o","n","c","l",
        "u","s","i","o","n">>,
      \* "acknowledgement"
      <<"a","c","k","n","o","w","l","e","d","g","e","m","e","n","t">>,
      \* "references"
      <<"r","e","f","e","r","e","n","c","e","s">>,
      \* "appendix"
      <<"a","p","p","e","n","d","i","x">>
    }

\* common_h2_names
common_h2_names ==
    {
      \* "materials and method"
      <<"m","a","t","e","r","i","a","l","s"," ","a","n","d"," ","m","e","t","h","o","d">>,
      \* "related work"
      <<"r","e","l","a","t","e","d"," ","w","o","r","k">>,
      \* "experimental setup"
      <<"e","x","p","e","r","i","m","e","n","t","a","l"," ","s","e","t","u","p">>,
      \* "data and implementation"
      <<"d","a","t","a"," ","a","n","d"," ","i","m","p","l","e","m","e","n","t","a","t",
        "i","o","n">>,
      \* "conclusion"
      <<"c","o","n","c","l","u","s","i","o","n">>
    }

\* common_h3_names
common_h3_names ==
    {
      \* "keywords"
      <<"k","e","y","w","o","r","d","s">>,
      \* "conflict of interest"
      <<"c","o","n","f","l","i","c","t"," ","o","f"," ","i","n","t","e","r","e","s","t">>,
      \* "declaration of interests"
      <<"d","e","c","l","a","r","a","t","i","o","n"," ","o","f"," ","i","n","t","e","r",
        "e","s","t","s">>
    }

\* the named headings of the clean-up chain, in the order of its elif branches
NamedCleanups ==
    <<
      \* "abstract" -> "Abstract"
      [prefix |->
          <<"a","b","s","t","r","a","c","t">>,
       display |->
          <<"A","b","s","t","r","a","c","t">>],
      \* "keywords:" -> "Keywords"
      [prefix |->
          <<"k","e","y","w","o","r","d","s",":">>,
       display |->
          <<"K","e","y","w","o","r","d","s">>],
      \* "acknowledgement" -> "Acknowledgement"
      [prefix |->
          <<"a","c","k","n","o","w","l","e","d","g","e","m","e","n","t">>,
       display |->
          <<"A","c","k","n","o","w","l","e","d","g","e","m","e","n","t">>],
      \* "conflict of interest" -> "Conflict of interest"
      [prefix |->
          <<"c","o","n","f","l","i","c","t"," ","o","f"," ","i","n","t","e","r","e","s",
            "t">>,
       display |->
          <<"C","o","n","f","l","i","c","t"," ","o","f"," ","i","n","t","e","r","e","s",
            "t">>],
      \* "declaration of interests" -> "Declaration of interests"
      [prefix |->
          <<"d","e","c","l","a","r","a","t","i","o","n"," ","o","f"," ","i","n","t","e",
            "r","e","s","t","s">>,
       display |->
          <<"D","e","c","l","a","r","a","t","i","o","n"," ","o","f"," ","i","n","t","e",
            "r","e","s","t","s">>],
      \* "references" -> "References"
      [prefix |->
          <<"r","e","f","e","r","e","n","c","e","s">>,
       display |->
          <<"R","e","f","e","r","e","n","c","e","s">>]
    >>

\* "Untitled Document"
UntitledDocument ==
    <<"U","n","t","i","t","l","e","d"," ","D","o","c","u","m","e","n","t">>

\* "Academic Paper (Generic Title)"
GenericTitle ==
    <<"A","c","a","d","e","m","i","c"," ","P","a","p","e","r"," ","(","G","e","n","e","r",
      "i","c"," ","T","i","t","l","e",")">>

(***************************************************************************)
(* The regular expressions of the code, each as the set of texts the       *)
(* Python pattern matches.  A greedy run that is followed by a character   *)
(* outside its class leaves the matcher nothing to backtrack into, so each *)
(* pattern is decided by its greedy parse.                                 *)
(***************************************************************************)

\* (\.\d+)* from position j, which is just past a \d+: the index just past it
RECURSIVE DottedEnd(_, _)
DottedEnd(s, j) ==
    IF At(s, j, ".") /\ InAt(s, j + 1, DigitChars)
    THEN DottedEnd(s, Run(s, j + 1, DigitChars))
    ELSE j

\* \d+(\.\d+)* at position i: the index just past it, 0 when it does not match
SectionNumberEnd(s, i) ==
    IF InAt(s, i, DigitChars) THEN DottedEnd(s, Run(s, i, DigitChars)) ELSE 0

\* re.match(r'^(\d+(\.\d+)*)\s+(.*)', text), and the same test without (.*)
MatchNumbered(text) ==
    LET e == SectionNumberEnd(text, 1) IN e > 0 /\ InAt(text, e, SpaceChars)

\* match_numbered.group(1)
NumberedGroup1(text) == SubSeq(text, 1, SectionNumberEnd(text, 1) - 1)

\* match_numbered.group(3)
NumberedGroup3(text) ==
    SubSeq(text, Run(text, SectionNumberEnd(text, 1), SpaceChars), Len(text))

\* len(match_numbered.group(1).split('.'))
NumberedParts(text) == CountIn(NumberedGroup1(text), {"."}) + 1

\* re.match(r'^\s*\d+\s*$', text)
IsPageNumber(text) ==
    LET a == Run(text, 1, SpaceChars)
        b == Run(text, a, DigitChars)
    IN  b > a /\ AtEnd(text, Run(text, b, SpaceChars))

\* re.match(r'^(Page|Pg\.)\s+\d+\s*(of\s+\d+)?$', text, re.IGNORECASE)
IsPageLabel(text) ==
    \E p \in PagePrefixes :
        /\ StartsWith(Lower(text), p)
        /\ LET i == Len(p) + 1
               a == Run(text, i, SpaceChars)
               b == Run(text, a, DigitChars)
               c == Run(text, b, SpaceChars)
               d == Run(text, c + Len(OfWord), SpaceChars)
               e == Run(text, d, DigitChars)
           IN  /\ a > i
               /\ b > a
               /\ \/ AtEnd(text, c)
                  \/ /\ HasAt(Lower(text), c, OfWord)
                     /\ d > c + Len(OfWord)
                     /\ e > d
                     /\ AtEnd(text, e)

\* "journal pre-proof" in t or "highlights" in t or "journal pre-print" in t or
\* "manuscript" in t or "accepted manuscript" in t, for t = text.lower()
IsWatermark(text) == \E m \in WatermarkMarkers : Contains(Lower(text), m)

\* re.match(r'^(PII|DOI|Reference|Received date|Revised date|Accepted date):',
\*          text, re.IGNORECASE)
IsMetadataField(text) == \E p \in MetadataPrefixes : StartsWith(Lower(text), p)

\* re.match(r'^\s*\d+,\s*(\d{4}|\w+)\s*$', text): \d{4} is a case of \w+
IsNumberCommaWord(text) ==
    LET a == Run(text, 1, SpaceChars)
        b == Run(text, a, DigitChars)
        c == Run(text, b + 1, SpaceChars)
        d == Run(text, c, WordChars)
    IN  /\ b > a
        /\ At(text, b, ",")
        /\ d > c
        /\ AtEnd(text, Run(text, d, SpaceChars))

\* re.search(r'@[a-zA-Z0-9.-]+\.[a-zA-Z]{2,}', text)
HasEmail(text) ==
    \E i \in 1..Len(text) :
        /\ text[i] = "@"
        /\ \E k \in (i + 2)..Len(text) :
              /\ \A m \in (i + 1)..(k - 1) :
                    text[m] \in LetterChars \cup DigitChars \cup {".", "-"}
              /\ text[k] = "."
              /\ InAt(text, k + 1, LetterChars)
              /\ InAt(text, k + 2, LetterChars)

\* re.search(r'\b(University|Department|Institute|Queensland|Australia|Nigeria)\b',
\*           text)
HasInstitution(text) ==
    \E w \in InstitutionWords : \E i \in 1..Len(text) : WordAt(text, i, w)

\* re.search(r'^[A-Z][a-z]+\s+[A-Z]\.\s+[A-Z][a-z]+$', text)
IsAuthorName(text) ==
    LET b == Run(text, 2, LowerChars)
        c == Run(text, b, SpaceChars)
        d == Run(text, c + 2, SpaceChars)
        e == Run(text, d + 1, LowerChars)
    IN  /\ InAt(text, 1, UpperChars)
        /\ b > 2
        /\ c > b
        /\ InAt(text, c, UpperChars)
        /\ At(text, c + 1, ".")
        /\ d > c + 2
        /\ InAt(text, d, UpperChars)
        /\ e > d + 1
        /\ AtEnd(text, e)

\* re.search(r'\\(sum|alpha|...|text)\b', text)
HasLatexCommand(text) ==
    \E i \in 1..Len(text) :
        /\ text[i] = "\\"
        /\ \E c \in LatexCommands :
              /\ HasAt(text, i + 1, c)
              /\ ~InAt(text, i + 1 + Len(c), WordChars)

\* the class of r'^\s*[\(\[\]\{\}\+\-\*\/\=\<\>\$...%]\s*' (its two non-ASCII
\* currency signs occur in no text of the model and are left out)
MathLeadChars == {"(", "[", "]", "{", "}", "+", "-", "*", "/", "=", "<", ">", "$", "%"}

\* re.match(r'^\s*[\(\[\]\{\}\+\-\*\/\=\<\>\$...%]\s*', text)
StartsWithMathChar(text) == InAt(text, Run(text, 1, SpaceChars), MathLeadChars)

\* re.match(r'^[\d\.]+\s*[-+*\/=]', text)
StartsWithArithmetic(text) ==
    LET a == Run(text, 1, DigitChars \cup {"."})
    IN  a > 1 /\ InAt(text, Run(text, a, SpaceChars), {"-", "+", "*", "/", "="})

\* re.match(r'^\s*\(\s*\d+\s*\)\s*$', text)
IsEquationNumber(text) ==
    LET a == Run(text, 1, SpaceChars)
        b == Run(text, a + 1, SpaceChars)
        c == Run(text, b, DigitChars)
        d == Run(text, c, SpaceChars)
    IN  /\ At(text, a, "(")
        /\ c > b
        /\ At(text, d, ")")
        /\ AtEnd(text, Run(text, d + 1, SpaceChars))

\* re.match(r'^\s*\d+(\.\d+)*\s*$', text)
IsBareNumber(text) ==
    LET e == SectionNumberEnd(text, Run(text, 1, SpaceChars))
    IN  e > 0 /\ AtEnd(text, Run(text, e, SpaceChars))

\* re.match(r'^(Figure|Table)\s*\d+[:.]', text, re.IGNORECASE)
IsCaption(text) ==
    \E p \in CaptionPrefixes :
        /\ StartsWith(Lower(text), p)
        /\ LET a == Run(text, Len(p) + 1, SpaceChars)
               b == Run(text, a, DigitChars)
           IN  b > a /\ InAt(text, b, {":", "."})

\* the class of re.findall(r'[\d\+\-\*\/\=\<\>\$\\]', text)
MathDensityChars == DigitChars \cup {"+", "-", "*", "/", "=", "<", ">", "$", "\\"}

\* len(re.findall(...)) / (len(text) + 1) > 0.4
IsMostlySymbols(text) == 10 * CountIn(text, MathDensityChars) > 4 * (Len(text) + 1)

\* OutlineExtractor._is_math_expression
IsMathExpression(raw) ==
    LET text == Strip(raw)
    IN  /\ text # << >>
        /\ \/ HasLatexCommand(text)
           \/ StartsWithMathChar(text)
           \/ StartsWithArithmetic(text)
           \/ IsEquationNumber(text)
           \/ IsBareNumber(text)
           \/ IsCaption(text)
           \/ IsMostlySymbols(text)

\* re.match(r'^\s*\[\d+\]\s*$', text) or re.match(r'^\s*\[[a-zA-Z\s\.]+\]\s*$', text)
IsBracketCitation(text) ==
    LET a == Run(text, 1, SpaceChars)
    IN  /\ At(text, a, "[")
        /\ \E C \in {DigitChars, LetterChars \cup SpaceChars \cup {"."}} :
              LET b == Run(text, a + 1, C)
              IN  /\ b > a + 1
                  /\ At(text, b, "]")
                  /\ AtEnd(text, Run(text, b + 1, SpaceChars))

\* re.search(r'\([A-Za-z\s\.]+,\s*\d{4}\)', text)
HasAuthorYear(text) ==
    \E i \in 1..Len(text) :
        /\ text[i] = "("
        /\ LET b == Run(text, i + 1, LetterChars \cup SpaceChars \cup {"."})
               c == Run(text, b + 1, SpaceChars)
           IN  /\ b > i + 1
               /\ At(text, b, ",")
               /\ \A k \in c..(c + 3) : InAt(text, k, DigitChars)
               /\ At(text, c + 4, ")")

\* text.lower().replace('.', '').replace(':', '').strip()
CleanedTextLower(text) == Strip(Remove(Remove(Lower(text), "."), ":"))

(***************************************************************************)
(* Numbers.  Sizes are hundredths of a point.  The sizes of the model do   *)
(* not end in 5 hundredths, so round(x, 1) has no tie to break.            *)
(***************************************************************************)

\* round(font_size, 1)
RoundSize(font_size) == ((font_size + 5) \div 10) * 10

\* the exact rational num / den, den > 0; den = 0 stands for float('inf')
Rat(n, d) == [num |-> n, den |-> d]

\* float('inf')
Infinity == Rat(1, 0)

\* a < b and a <= b for finite rationals
RatLess(a, b) == a.num * b.den < b.num * a.den

RatLeq(a, b) == a.num * b.den <= b.num * a.den

\* a * (p / q)
RatScale(a, p, q) == Rat(a.num * p, a.den * q)

\* a + k for an integer k
RatPlus(a, k) == Rat(a.num + k * a.den, a.den)

\* abs(x0_pos - x0_min) < 25
WithinIndent(x0_pos, x0_min) ==
    LET d == x0_pos * x0_min.den - x0_min.num
    IN  (IF d < 0 THEN 0 - d ELSE d) < 25 * x0_min.den

\* dict.get(key, default); a dict is a function and {} is the empty function
Get(dict, key, default) == IF key \in DOMAIN dict THEN dict[key] ELSE default

\* None
None == << >>

\* a value that is not None
Some(v) == <<v>>

\* the set of elements of a sequence
Range(seq) == {seq[i] : i \in 1..Len(seq)}

\* max(...) and min(...) of a non-empty set of integers
MaxOf(S) == CHOOSE m \in S : \A v \in S : v <= m

MinOf(S) == CHOOSE m \in S : \A v \in S : m <= v

\* the sum of f[i] over the set of indices I
RECURSIVE SumOver(_, _)
SumOver(f, I) ==
    IF I = {} THEN 0
    ELSE LET i == CHOOSE k \in I : TRUE IN f[i] + SumOver(f, I \ {i})

(***************************************************************************)
(* What the code computes from one line record alone.                      *)
(***************************************************************************)

\* 'bold' in n or 'black' in n or 'demi' in n or 'heavy' in n or
\* 'condensed' in n or 'extrabold' in n, for n = font_name.lower()
IsBold(font_name) == \E m \in BoldMarkers : Contains(Lower(font_name), m)

\* Stage 0 of _is_heading, lines 219-266: the filters that return None before
\* any classification; text is the stripped text
IsFilteredOut(text, page) ==
    \/ text = << >>
    \/ Len(text) < 3
    \/ WordCount(text) > 20 /\ ~MatchNumbered(text)
    \/ IsPageNumber(text) /\ page > 1
    \/ IsPageLabel(text)
    \/ IsWatermark(text)
    \/ IsMetadataField(text)
    \/ IsNumberCommaWord(text)
    \/ HasEmail(text)
    \/ HasInstitution(text)
    \/ IsAuthorName(text)
    \/ IsMathExpression(text)
    \/ IsBracketCitation(text)
    \/ HasAuthorYear(text) /\ WordCount(text) < 20
    \/ /\ EndsWith(text, <<".">>)
       /\ WordCount(text) > 5
       /\ ~\E p \in SentenceStarters : StartsWith(Lower(text), p)

\* lines 357-365: the tests of the fallback title on the text of a line
IsTitleCandidateText(raw) ==
    LET current_text_lower == Lower(Strip(raw))
    IN  /\ ~Contains(current_text_lower, JournalPreProof)
        /\ ~Contains(current_text_lower, Highlights)
        /\ ~IsMathExpression(Strip(raw))
        /\ ~IsMetadataField(current_text_lower)
        /\ ~HasEmail(current_text_lower)
        /\ ~HasAuthorYear(current_text_lower)
        /\ 15 < WordCount(raw)
        /\ WordCount(raw) < 30

\* lines 421-432: the display form of a named heading that has more words
RECURSIVE NamedCleanup(_, _)
NamedCleanup(cleaned_text, k) ==
    IF k > Len(NamedCleanups) THEN cleaned_text
    ELSE IF /\ StartsWith(Lower(cleaned_text), NamedCleanups[k].prefix)
            /\ WordCount(cleaned_text) > 1
    THEN NamedCleanups[k].display
    ELSE NamedCleanup(cleaned_text, k + 1)

\* lines 413-432: the text of the entry of a heading line
CleanHeadingText(current_text) ==
    IF MatchNumbered(current_text)
    THEN Strip(NumberedGroup3(current_text))
    ELSE NamedCleanup(current_text, 1)

\* everything the code derives from line_data without the font profile
LineFacts(line_data) ==
    LET text == Strip(line_data.text)
    IN  [text               |-> text,
         text_lower         |-> Lower(text),
         font_size          |-> RoundSize(line_data.font_size),
         is_bold            |-> IsBold(line_data.font_name),
         journal_pre_proof  |-> Contains(Lower(line_data.text), JournalPreProof),
         known_title        |-> Contains(Lower(text), KnownTitle),
         title_candidate    |-> IsTitleCandidateText(line_data.text),
         watermark          |-> IsWatermark(text),
         page_number        |-> IsPageNumber(text),
         filtered_out       |-> IsFilteredOut(text, line_data.page),
         numbered           |-> MatchNumbered(text),
         parts              |-> IF MatchNumbered(text) THEN NumberedParts(text) ELSE 0,
         cleaned_text_lower |-> CleanedTextLower(text),
         words              |-> WordCount(text),
         ends_with_dot      |-> EndsWith(text, <<".">>),
         cleaned_text       |-> CleanHeadingText(text)]

(***************************************************************************)
(* The texts and fonts of the line records of the model.                   *)
(***************************************************************************)
\* "Deep Support Vector Machine For Hyperspectral Image Classification"
TitleText ==
    <<"D","e","e","p"," ","S","u","p","p","o","r","t"," ","V","e","c","t","o","r"," ","M",
      "a","c","h","i","n","e"," ","F","o","r"," ","H","y","p","e","r","s","p","e","c","t",
      "r","a","l"," ","I","m","a","g","e"," ","C","l","a","s","s","i","f","i","c","a","t",
      "i","o","n">>

\* "Journal Pre-proof Deep Support Vector Machine For Hyperspectral Image Classification"
WatermarkedTitleText ==
    <<"J","o","u","r","n","a","l"," ","P","r","e","-","p","r","o","o","f"," ","D","e","e",
      "p"," ","S","u","p","p","o","r","t"," ","V","e","c","t","o","r"," ","M","a","c","h",
      "i","n","e"," ","F","o","r"," ","H","y","p","e","r","s","p","e","c","t","r","a","l",
      " ","I","m","a","g","e"," ","C","l","a","s","s","i","f","i","c","a","t","i","o","n">>

\* "1. Introduction"
IntroductionDotText ==
    <<"1","."," ","I","n","t","r","o","d","u","c","t","i","o","n">>

\* "1 Introduction"
IntroductionNumText ==
    <<"1"," ","I","n","t","r","o","d","u","c","t","i","o","n">>

\* "2 Methods"
MethodsNumText ==
    <<"2"," ","M","e","t","h","o","d","s">>

\* "2.1 Related Work"
RelatedWorkNumText ==
    <<"2",".","1"," ","R","e","l","a","t","e","d"," ","W","o","r","k">>

\* "References"
ReferencesText ==
    <<"R","e","f","e","r","e","n","c","e","s">>

\* "Introduction"
IntroductionText ==
    <<"I","n","t","r","o","d","u","c","t","i","o","n">>

\* "Related Work"
RelatedWorkText ==
    <<"R","e","l","a","t","e","d"," ","W","o","r","k">>

\* "7"
PageSevenText ==
    <<"7">>

\* "777"
ThreeSevensText ==
    <<"7","7","7">>

\* "Overview"
OverviewText ==
    <<"O","v","e","r","v","i","e","w">>

\* "Hyperspectral Imaging"
ImagingText ==
    <<"H","y","p","e","r","s","p","e","c","t","r","a","l"," ","I","m","a","g","i","n","g">>

\* "Accepted manuscript of a study of deep kernel methods for the analysis
\* of hyperspectral images and data": 17 words
ManuscriptTitleText ==
    <<"A","c","c","e","p","t","e","d"," ","m","a","n","u","s","c","r","i","p","t"," ",
      "o","f"," ","a"," ","s","t","u","d","y"," ","o","f"," ","d","e","e","p"," ","k",
      "e","r","n","e","l"," ","m","e","t","h","o","d","s"," ","f","o","r"," ","t","h",
      "e"," ","a","n","a","l","y","s","i","s"," ","o","f"," ","h","y","p","e","r","s",
      "p","e","c","t","r","a","l"," ","i","m","a","g","e","s"," ","a","n","d"," ","d",
      "a","t","a" >>

\* "2.1.1 Kernels"
KernelsNumText ==
    <<"2",".","1",".","1"," ","K","e","r","n","e","l","s">>

\* "Journal Pre-proof"
WatermarkText ==
    <<"J","o","u","r","n","a","l"," ","P","r","e","-","p","r","o","o","f">>

\* "DEEP SUPPORT VECTOR MACHINE FOR HYPERSPECTRAL IMAGE CLASSIFICATION"
RunningTitleText ==
    <<"D","E","E","P"," ","S","U","P","P","O","R","T"," ","V","E","C","T","O","R"," ",
      "M","A","C","H","I","N","E"," ","F","O","R"," ","H","Y","P","E","R","S","P","E",
      "C","T","R","A","L"," ","I","M","A","G","E"," ","C","L","A","S","S","I","F","I",
      "C","A","T","I","O","N">>

\* "Times-Bold"
TimesBold ==
    <<"T","i","m","e","s","-","B","o","l","d">>

\* "Times-Roman"
TimesRoman ==
    <<"T","i","m","e","s","-","R","o","m","a","n">>

\* a line record as pdf_parser.extract_blocks_with_metadata builds it; the
\* size is in hundredths of a point
Line(text, font_name, font_size, bbox, page) ==
    [text |-> text, font_name |-> font_name, font_size |-> font_size,
     bbox |-> bbox, page |-> page]

\* The lines a document of the first corpus is made of: a title, numbered and
\* named headings, page numbers and body text, on three pages.
LineRecords ==
    { Line(TitleText, TimesBold, 2000, <<72, 40, 500, 60>>, 1),
      Line(IntroductionNumText, TimesBold, 1400, <<72, 120, 200, 134>>, 1),
      Line(IntroductionNumText, TimesBold, 1400, <<72, 300, 200, 314>>, 1),
      Line(ImagingText, TimesRoman, 1000, <<72, 150, 300, 160>>, 1),
      Line(ReferencesText, TimesBold, 1400, <<72, 300, 200, 314>>, 2),
      Line(ThreeSevensText, TimesBold, 1400, <<72, 400, 100, 414>>, 2),
      Line(PageSevenText, TimesBold, 2000, <<72, 400, 100, 420>>, 3) }

\* The lines of the documents that go through one extractor one after the
\* other: the title, a numbered and a named heading, and a line of body text.
ReuseRecords ==
    { Line(TitleText, TimesBold, 2000, <<72, 40, 500, 60>>, 1),
      Line(IntroductionNumText, TimesBold, 1400, <<72, 120, 200, 134>>, 1),
      Line(ImagingText, TimesRoman, 1000, <<72, 150, 300, 160>>, 1),
      Line(ReferencesText, TimesBold, 1400, <<72, 300, 200, 314>>, 2) }

\* The lines of the second corpus: the lines of scenarios A and B, a
\* watermarked title, two headings at one height of one page, a small bold
\* and a large regular style on different pages, and a first line of 17
\* words that marks the document as an accepted manuscript.
CaseRecords ==
    { Line(TitleText, TimesBold, 2000, <<72, 40, 500, 60>>, 1),
      Line(IntroductionDotText, TimesBold, 1400, <<72, 120, 200, 134>>, 1),
      Line(RelatedWorkNumText, TimesBold, 1200, <<72, 100, 200, 112>>, 2),
      Line(WatermarkedTitleText, TimesBold, 2000, <<72, 40, 500, 60>>, 1),
      Line(MethodsNumText, TimesBold, 1400, <<72, 120, 200, 134>>, 1),
      Line(OverviewText, TimesBold, 1200, <<72, 100, 200, 112>>, 1),
      Line(ImagingText, TimesRoman, 2000, <<72, 100, 300, 120>>, 2),
      Line(ManuscriptTitleText, TimesBold, 2000, <<72, 40, 500, 60>>, 1) }

\* The lines of the third corpus: a paper with a running watermark, its
\* title repeated in capitals as the header of page 2, numbered headings of
\* three levels, one of them indented, and a large page number.
PaperRecords ==
    { Line(TitleText, TimesBold, 2000, <<72, 40, 500, 60>>, 1),
      Line(WatermarkText, TimesBold, 1400, <<72, 20, 200, 34>>, 1),
      Line(IntroductionNumText, TimesBold, 1400, <<72, 120, 200, 134>>, 1),
      Line(RunningTitleText, TimesBold, 1400, <<72, 20, 500, 34>>, 2),
      Line(RelatedWorkNumText, TimesBold, 1200, <<72, 100, 200, 112>>, 2),
      Line(MethodsNumText, TimesBold, 1400, <<130, 200, 260, 214>>, 2),
      Line(KernelsNumText, TimesBold, 1200, <<72, 300, 200, 312>>, 2),
      Line(PageSevenText, TimesBold, 2000, <<72, 400, 100, 420>>, 3) }

\* the most line records a caller feeds to extractors in one run
MaxLines == 3

\* the line records of the corpora
KnownLines == LineRecords \cup CaseRecords \cup PaperRecords

\* LineFacts of the lines of the corpora, computed once
KnownLineFacts == [line_data \in KnownLines |-> LineFacts(line_data)]

\* a line of the corpora with its LineFacts, which extract_outline and the
\* methods it calls compute from the line wherever they use them
WithFacts(line_data) ==
    [text      |-> line_data.text,
     font_name |-> line_data.font_name,
     font_size |-> line_data.font_size,
     bbox      |-> line_data.bbox,
     page      |-> line_data.page,
     facts     |-> KnownLineFacts[line_data]]

\* the LineFacts of a line that carries them
Facts(line_data) == line_data.facts

(***************************************************************************)
(* Font signatures.                                                        *)
(***************************************************************************)

\* sig = (font_name, size, is_bold)
Signature(line_data) ==
    [font_name |-> line_data.font_name,
     size      |-> Facts(line_data).font_size,
     is_bold   |-> Facts(line_data).is_bold]

(***************************************************************************)
(* OutlineExtractor._analyze_font_properties                               *)
(***************************************************************************)

\* page_height and page_width: the far corner of the first record when it is
\* on page 1 and positive, else A4
PageExtent(text_lines_data) ==
    LET first_page_line == text_lines_data[1]
    IN  IF /\ first_page_line.page = 1
           /\ first_page_line.bbox[4] > 0
           /\ first_page_line.bbox[3] > 0
        THEN [height |-> first_page_line.bbox[4], width |-> first_page_line.bbox[3]]
        ELSE [height |-> 842, width |-> 595]

\* Counter(filtered_sizes_for_body).most_common(1)[0][0], or 10.0: the size
\* with the most lines among those above 6 and below 95% of the largest; of
\* several such sizes, the one met first
BodyFontSize(sizes, max_overall_font_size) ==
    LET filtered == {i \in 1..Len(sizes) :
                        sizes[i] > 600 /\ 20 * sizes[i] < 19 * max_overall_font_size}
        count(s) == Cardinality({i \in filtered : sizes[i] = s})
        best     == {i \in filtered : \A j \in filtered : count(sizes[j]) <= count(sizes[i])}
    IN  IF filtered = {} THEN 1000 ELSE sizes[MinOf(best)]

\* 20 * (size * 15 + (200 if is_bold else 0) + count * 0.05)
ScoreBase(st) ==
    3 * st.signature.size + (IF st.signature.is_bold THEN 4000 ELSE 0) + st.count

\* 5 * sum_y * page_width + sum_x0 * page_height, which over
\* count * page_height * page_width is (norm_y * 100 + norm_x0 * 20) / 20
ScorePenalty(st, extent) == 5 * st.sum_y * extent.width + st.sum_x0 * extent.height

\* floor(400 * c / b) for b > 0, in steps that stay within 32-bit integers
FloorTimes400Over(c, b) ==
    LET r1 == c % b
        r2 == (20 * r1) % b
    IN  400 * (c \div b) + 20 * ((20 * r1) \div b) + ((20 * r2) \div b)

\* x['score'] > y['score'], for score = size * 15 + (200 if is_bold else 0)
\*   - norm_y * 100 - norm_x0 * 20 + count * 0.05, compared exactly:
\* 20 * score = ScoreBase - 400 * ScorePenalty / (count * height * width)
ScoreGreater(x, y, extent) ==
    LET c == ScorePenalty(x, extent) * y.count - ScorePenalty(y, extent) * x.count
        b == x.count * y.count * extent.height * extent.width
    IN  ScoreBase(x) - ScoreBase(y) > FloorTimes400Over(c, b)

\* list.sort(key=score, reverse=True): stable, so a style stays behind the
\* earlier styles whose score is not smaller
RECURSIVE SortByScore(_, _)
SortByScore(styles, extent) ==
    IF styles = << >> THEN << >>
    ELSE LET n    == Len(styles)
             head == SortByScore(SubSeq(styles, 1, n - 1), extent)
             x    == styles[n]
             ahead == {i \in 1..Len(head) : ~ScoreGreater(x, head[i], extent)}
             k    == IF ahead = {} THEN 0 ELSE MaxOf(ahead)
         IN  SubSeq(head, 1, k) \o <<x>> \o SubSeq(head, k + 1, Len(head))

\* the increasing sequence of the integers of S
RECURSIVE Ascending(_)
Ascending(S) ==
    IF S = {} THEN << >> ELSE <<MinOf(S)>> \o Ascending(S \ {MinOf(S)})

\* the keys of font_signatures_raw in insertion order: each signature at the
\* index of the first line that has it
SignatureOrder(text_lines_data) ==
    Ascending({i \in 1..Len(text_lines_data) :
                 \A j \in 1..(i - 1) :
                     Signature(text_lines_data[j]) # Signature(text_lines_data[i])})

\* the style_info of one signature: its lines' coordinate sums and count
StyleInfo(sig, text_lines_data) ==
    LET lines_for_this_sig ==
            {i \in 1..Len(text_lines_data) : Signature(text_lines_data[i]) = sig}
    IN  [signature |-> sig,
         sum_y     |-> SumOver([i \in lines_for_this_sig |-> text_lines_data[i].bbox[2]],
                               lines_for_this_sig),
         sum_x0    |-> SumOver([i \in lines_for_this_sig |-> text_lines_data[i].bbox[1]],
                               lines_for_this_sig),
         count     |-> Cardinality(lines_for_this_sig)]

\* The test of line 70 is left out: a ubiquitous style is kept when it is bold
\* and large, whatever the text of its lines.
IsPotentialHeadingStyleAnyText(sig, text_lines_data, general_font_info) ==
    LET lines_for_this_sig ==
            {i \in 1..Len(text_lines_data) : Signature(text_lines_data[i]) = sig}
        pages_with_style ==
            Cardinality({text_lines_data[i].page : i \in lines_for_this_sig})
        page_count_actual ==
            Cardinality({text_lines_data[i].page : i \in 1..Len(text_lines_data)})
    IN  /\ ~(20 * sig.size < 19 * general_font_info.body_font_size \/ sig.size < 800)
        /\ \/ ~(10 * pages_with_style > 7 * page_count_actual)
           \/ /\ sig.is_bold
              /\ 10 * sig.size >= 9 * general_font_info.max_overall_font_size

\* whether the loop over font_signatures_raw appends the signature to
\* potential_heading_styles (no `continue` is taken)
IsPotentialHeadingStyle(sig, text_lines_data, general_font_info) ==
    LET lines_for_this_sig ==
            {i \in 1..Len(text_lines_data) : Signature(text_lines_data[i]) = sig}
        pages_with_style ==
            Cardinality({text_lines_data[i].page : i \in lines_for_this_sig})
        page_count_actual ==
            Cardinality({text_lines_data[i].page : i \in 1..Len(text_lines_data)})
    IN  /\ ~(20 * sig.size < 19 * general_font_info.body_font_size \/ sig.size < 800)
        /\ \/ ~(10 * pages_with_style > 7 * page_count_actual)
           \/ /\ ~\E i \in lines_for_this_sig :
                     Facts(text_lines_data[i]).journal_pre_proof
              /\ sig.is_bold
              /\ 10 * sig.size >= 9 * general_font_info.max_overall_font_size

\* potential_heading_styles before it is sorted
PotentialHeadingStyles(text_lines_data, general_font_info) ==
    LET order == SignatureOrder(text_lines_data)
        sigs  == [k \in 1..Len(order) |-> Signature(text_lines_data[order[k]])]
        kept  == SelectSeq(sigs, LAMBDA sig :
                     IsPotentialHeadingStyle(sig, text_lines_data, general_font_info))
    IN  [k \in 1..Len(kept) |-> StyleInfo(kept[k], text_lines_data)]

\* font_styles_map before the assignment loop
EmptyFontStylesMap ==
    [H1 |-> None, H2 |-> None, H3 |-> None,
     H1_size |-> Rat(0, 1), H2_size |-> Rat(0, 1), H3_size |-> Rat(0, 1),
     H1_x0_min |-> Infinity, H2_x0_min |-> Infinity, H3_x0_min |-> Infinity]

\* size < level_size * 0.95 or sig[0] != level[0] or sig[2] != level[2]
IsDistinctStyle(sig, level_sig, level_size) ==
    \/ RatLess(Rat(sig.size, 1), RatScale(level_size, 19, 20))
    \/ sig.font_name # level_sig.font_name
    \/ sig.is_bold # level_sig.is_bold

\* the loop `for style_info in potential_heading_styles` from its i-th style
RECURSIVE AssignLevels(_, _, _, _)
AssignLevels(styles, i, font_styles_map, assigned_levels_count) ==
    IF i > Len(styles) \/ assigned_levels_count >= 3
    THEN font_styles_map
    ELSE LET sig    == styles[i].signature
             avg_x0 == Rat(styles[i].sum_x0, styles[i].count)
         IN  IF assigned_levels_count = 0
             THEN AssignLevels(styles, i + 1,
                      [font_styles_map EXCEPT !.H1 = Some(sig),
                                              !.H1_size = Rat(sig.size, 1),
                                              !.H1_x0_min = avg_x0], 1)
             ELSE IF assigned_levels_count = 1
             THEN IF IsDistinctStyle(sig, font_styles_map.H1[1], font_styles_map.H1_size)
                  THEN AssignLevels(styles, i + 1,
                           [font_styles_map EXCEPT !.H2 = Some(sig),
                                                   !.H2_size = Rat(sig.size, 1),
                                                   !.H2_x0_min = avg_x0], 2)
                  ELSE AssignLevels(styles, i + 1, font_styles_map, 1)
             ELSE IF IsDistinctStyle(sig, font_styles_map.H2[1], font_styles_map.H2_size)
                  THEN AssignLevels(styles, i + 1,
                           [font_styles_map EXCEPT !.H3 = Some(sig),
                                                   !.H3_size = Rat(sig.size, 1),
                                                   !.H3_x0_min = avg_x0], 3)
                  ELSE AssignLevels(styles, i + 1, font_styles_map, 2)

\* the fallbacks for the sizes and indentations the loop left unset
WithFallbacks(assigned, general_font_info) ==
    LET max_overall_font_size == general_font_info.max_overall_font_size
        s1 == IF assigned.H1_size.num = 0
              THEN [assigned EXCEPT !.H1_size =
                        IF max_overall_font_size > 0
                        THEN Rat(9 * max_overall_font_size, 10)
                        ELSE Rat(1800, 1)]
              ELSE assigned
        s2 == IF s1.H2_size.num = 0
              THEN [s1 EXCEPT !.H2_size = RatScale(s1.H1_size, 17, 20)] ELSE s1
        s3 == IF s2.H3_size.num = 0
              THEN [s2 EXCEPT !.H3_size = RatScale(s2.H2_size, 17, 20)] ELSE s2
        x1 == IF s3.H1_x0_min = Infinity
              THEN [s3 EXCEPT !.H1_x0_min = Rat(general_font_info.min_x0, 1)] ELSE s3
        x2 == IF x1.H2_x0_min = Infinity
              THEN [x1 EXCEPT !.H2_x0_min = RatPlus(x1.H1_x0_min, 10)] ELSE x1
    IN  IF x2.H3_x0_min = Infinity
        THEN [x2 EXCEPT !.H3_x0_min = RatPlus(x2.H2_x0_min, 10)] ELSE x2

\* general_font_info after lines 38-49
GeneralFontInfo(text_lines_data) ==
    LET all_font_sizes ==
            [i \in 1..Len(text_lines_data) |-> Facts(text_lines_data[i]).font_size]
        max_overall_font_size == MaxOf(Range(all_font_sizes))
    IN  [max_overall_font_size |-> max_overall_font_size,
         min_x0 |-> MinOf({text_lines_data[i].bbox[1] : i \in 1..Len(text_lines_data)}),
         body_font_size |-> BodyFontSize(all_font_sizes, max_overall_font_size)]

\* _analyze_font_properties: the two dicts of the instance after the call
AnalyzeFontProperties(text_lines_data, font_styles_map, general_font_info) ==
    IF text_lines_data = << >>
    THEN [font_styles_map |-> font_styles_map, general_font_info |-> general_font_info]
    ELSE LET info   == GeneralFontInfo(text_lines_data)
             styles == SortByScore(PotentialHeadingStyles(text_lines_data, info),
                                   PageExtent(text_lines_data))
         IN  [font_styles_map |->
                  WithFallbacks(AssignLevels(styles, 1, EmptyFontStylesMap, 0), info),
              general_font_info |-> info]

(***************************************************************************)
(* OutlineExtractor._is_title                                              *)
(***************************************************************************)
IsTitle(line_data, general_font_info) ==
    LET f == Facts(line_data)
    IN  /\ ~(line_data.page # 1 \/ f.text = << >>)
        /\ f.known_title
        /\ f.is_bold
        /\ 20 * f.font_size >= 19 * Get(general_font_info, "max_overall_font_size", 0)
        /\ line_data.bbox[2] < 150

(***************************************************************************)
(* OutlineExtractor._is_heading                                            *)
(***************************************************************************)

\* the value _is_heading returns for a line that is no heading (None)
NoHeading == "None"

\* Stage 1, lines 274-287: the level of a line that matches the numbered
\* pattern, or None
NumberedLevel(line_data, font_styles_map, general_font_info) ==
    LET f      == Facts(line_data)
        x0_pos == line_data.bbox[1]
    IN  IF /\ 10 * f.font_size >= 9 * Get(general_font_info, "body_font_size", 1000)
           /\ \/ f.is_bold
              \/ Some(Signature(line_data)) \in {Get(font_styles_map, "H1", None),
                                                 Get(font_styles_map, "H2", None),
                                                 Get(font_styles_map, "H3", None)}
        THEN IF f.parts = 1
             THEN IF WithinIndent(x0_pos, Get(font_styles_map, "H1_x0_min", Rat(0, 1)))
                  THEN "H1" ELSE NoHeading
             ELSE IF f.parts = 2
             THEN IF WithinIndent(x0_pos, Get(font_styles_map, "H2_x0_min", Rat(0, 1)))
                  THEN "H2" ELSE NoHeading
             ELSE IF WithinIndent(x0_pos, Get(font_styles_map, "H3_x0_min", Rat(0, 1)))
                  THEN "H3" ELSE NoHeading
        ELSE NoHeading

\* one test of stage 2, lines 296-304: a named heading of the level
IsNamedLevel(line_data, names, level, font_styles_map) ==
    LET f == Facts(line_data)
    IN  /\ f.cleaned_text_lower \in names
        /\ f.is_bold
        /\ RatLeq(RatScale(Get(font_styles_map, level \o "_size", Rat(0, 1)), 9, 10),
                  Rat(f.font_size, 1))
        /\ WithinIndent(line_data.bbox[1],
                        Get(font_styles_map, level \o "_x0_min", Rat(0, 1)))

\* one test of stage 3, lines 311-323: the learned style of the level, or a
\* bold line of at least 90% of its size, short enough and indented like it
IsStyledLevel(line_data, level, max_words, font_styles_map) ==
    LET f == Facts(line_data)
    IN  /\ \/ Get(font_styles_map, level, None) = Some(Signature(line_data))
           \/ /\ RatLeq(RatScale(font_styles_map[level \o "_size"], 9, 10),
                        Rat(f.font_size, 1))
              /\ f.is_bold
        /\ f.words < max_words
        /\ ~f.ends_with_dot
        /\ WithinIndent(line_data.bbox[1],
                        Get(font_styles_map, level \o "_x0_min", Rat(0, 1)))

\* The `return None` of line 287 taken by every line that reaches stage 1:
\* stages 2 and 3 are never run.
IsHeadingNumberedOnly(line_data, font_styles_map, general_font_info) ==
    IF Facts(line_data).filtered_out THEN NoHeading
    ELSE IF Facts(line_data).numbered
    THEN NumberedLevel(line_data, font_styles_map, general_font_info)
    ELSE NoHeading

\* The `return None` of line 287 is missing: a numbered line that fails the
\* tests of stage 1 goes on to stages 2 and 3.
IsHeadingFallsThrough(line_data, font_styles_map, general_font_info) ==
    IF Facts(line_data).filtered_out THEN NoHeading
    ELSE IF /\ Facts(line_data).numbered
            /\ NumberedLevel(line_data, font_styles_map, general_font_info) # NoHeading
    THEN NumberedLevel(line_data, font_styles_map, general_font_info)
    ELSE IF IsNamedLevel(line_data, common_h1_names, "H1", font_styles_map) THEN "H1"
    ELSE IF IsNamedLevel(line_data, common_h2_names, "H2", font_styles_map) THEN "H2"
    ELSE IF IsNamedLevel(line_data, common_h3_names, "H3", font_styles_map) THEN "H3"
    ELSE IF IsStyledLevel(line_data, "H1", 10, font_styles_map) THEN "H1"
    ELSE IF IsStyledLevel(line_data, "H2", 15, font_styles_map) THEN "H2"
    ELSE IF IsStyledLevel(line_data, "H3", 20, font_styles_map) THEN "H3"
    ELSE NoHeading

\* _is_heading: "H1", "H2", "H3" or None
IsHeading(line_data, font_styles_map, general_font_info) ==
    IF Facts(line_data).filtered_out THEN NoHeading
    ELSE IF Facts(line_data).numbered
    THEN NumberedLevel(line_data, font_styles_map, general_font_info)
    ELSE IF IsNamedLevel(line_data, common_h1_names, "H1", font_styles_map) THEN "H1"
    ELSE IF IsNamedLevel(line_data, common_h2_names, "H2", font_styles_map) THEN "H2"
    ELSE IF IsNamedLevel(line_data, common_h3_names, "H3", font_styles_map) THEN "H3"
    ELSE IF IsStyledLevel(line_data, "H1", 10, font_styles_map) THEN "H1"
    ELSE IF IsStyledLevel(line_data, "H2", 15, font_styles_map) THEN "H2"
    ELSE IF IsStyledLevel(line_data, "H3", 20, font_styles_map) THEN "H3"
    ELSE NoHeading

(***************************************************************************)
(* OutlineExtractor.extract_outline                                        *)
(***************************************************************************)

\* list.sort(key=lambda b: (b['page'], b['bbox'][1])): stable, ascending
RECURSIVE SortLines(_)
SortLines(lines) ==
    IF lines = << >> THEN << >>
    ELSE LET n     == Len(lines)
             head  == SortLines(SubSeq(lines, 1, n - 1))
             x     == lines[n]
             ahead == {i \in 1..Len(head) :
                          \/ head[i].page < x.page
                          \/ head[i].page = x.page /\ head[i].bbox[2] <= x.bbox[2]}
             k     == IF ahead = {} THEN 0 ELSE MaxOf(ahead)
         IN  SubSeq(head, 1, k) \o <<x>> \o SubSeq(head, k + 1, Len(head))

\* list.sort(key=lambda x: x['font_size'], reverse=True): stable, descending
RECURSIVE SortBySize(_)
SortBySize(lines) ==
    IF lines = << >> THEN << >>
    ELSE LET n     == Len(lines)
             head  == SortBySize(SubSeq(lines, 1, n - 1))
             x     == lines[n]
             ahead == {i \in 1..Len(head) : head[i].font_size >= x.font_size}
             k     == IF ahead = {} THEN 0 ELSE MaxOf(ahead)
         IN  SubSeq(head, 1, k) \o <<x>> \o SubSeq(head, k + 1, Len(head))

\* lines 353-366: the line is a candidate of the fallback title
IsTitleCandidate(ld, general_font_info) ==
    /\ ld.page = 1
    /\ ld.bbox[2] < 200
    /\ Facts(ld).is_bold
    /\ 10 * ld.font_size >= 9 * Get(general_font_info, "max_overall_font_size", 0)
    /\ Facts(ld).title_candidate

\* lines 376-383: the title text after the candidates from the i-th on
RECURSIVE JoinTitleLines(_, _, _)
JoinTitleLines(potential_title_lines, i, final_title_text) ==
    IF i > Len(potential_title_lines) THEN final_title_text
    ELSE LET base == potential_title_lines[1]
             cur  == potential_title_lines[i]
             prev == potential_title_lines[i - 1]
             dx   == cur.bbox[1] - base.bbox[1]
         IN  IF /\ cur.bbox[2] - prev.bbox[4] < 5
                /\ cur.font_size = base.font_size
                /\ (IF dx < 0 THEN 0 - dx ELSE dx) < 10
             THEN JoinTitleLines(potential_title_lines, i + 1,
                                 final_title_text \o <<" ">> \o Facts(cur).text)
             ELSE final_title_text

\* Step 2, lines 342-386: self.title after the title search
DetectTitle(text_lines_data, general_font_info) ==
    LET titles == SelectSeq(text_lines_data,
                            LAMBDA line_data : IsTitle(line_data, general_font_info))
        potential_title_lines ==
            SortBySize(SelectSeq(text_lines_data,
                           LAMBDA ld : IsTitleCandidate(ld, general_font_info)))
    IN  IF titles # << >> THEN Facts(titles[1]).text
        ELSE IF potential_title_lines # << >>
        THEN JoinTitleLines(potential_title_lines, 2, Facts(potential_title_lines[1]).text)
        ELSE GenericTitle

\* The comparison with the title looks at the case of the letters.
IsSkippedCaseSensitive(line_data, title) ==
    \/ Facts(line_data).watermark
    \/ title # UntitledDocument /\ Facts(line_data).text = title
    \/ Facts(line_data).page_number

\* lines 398-408: the line is skipped before it is classified
IsSkipped(line_data, title) ==
    \/ Facts(line_data).watermark
    \/ title # UntitledDocument /\ Facts(line_data).text_lower = Lower(title)
    \/ Facts(line_data).page_number

\* An entry is appended although its key is in added_headings.
AppendEntryAlways(outline, added_headings, entry) == Append(outline, entry)

\* lines 438-447: the outline after a heading with this entry was found
AppendEntry(outline, added_headings, entry) ==
    IF <<entry.text, entry.level, entry.page>> \in added_headings
    THEN outline
    ELSE Append(outline, entry)

\* Step 3, lines 390-447: self.outline after the loop has handled the lines
\* from the i-th on.  Each entry carries the index of its line in `line`,
\* which the code does not keep; Outline drops it.
RECURSIVE ClassifyLines(_, _, _, _, _, _)
ClassifyLines(text_lines_data, i, title, font_styles_map, general_font_info, outline) ==
    IF i > Len(text_lines_data) THEN outline
    ELSE LET line_data     == text_lines_data[i]
             heading_level == IsHeading(line_data, font_styles_map, general_font_info)
             cleaned_text  == Facts(line_data).cleaned_text
             added_headings == {<<outline[k].text, outline[k].level, outline[k].page>> :
                                   k \in 1..Len(outline)}
             entry == [level |-> heading_level, text |-> cleaned_text,
                       page |-> line_data.page, line |-> i]
             next  == IF \/ IsSkipped(line_data, title)
                         \/ heading_level = NoHeading
                         \/ cleaned_text = << >>
                         \/ Len(cleaned_text) < 3
                      THEN outline
                      ELSE AppendEntry(outline, added_headings, entry)
         IN  ClassifyLines(text_lines_data, i + 1, title, font_styles_map,
                           general_font_info, next)

\* the entries as the code builds them: level, text and page
Outline(entries) ==
    [k \in 1..Len(entries) |->
        [level |-> entries[k].level, text |-> entries[k].text, page |-> entries[k].page]]

\* The lines are taken in the order given, without sorting.
SortedInputUnsorted(text_lines_data) == text_lines_data

\* text_lines_data after line 336
SortedInput(text_lines_data) == SortLines(text_lines_data)

\* self.title and self.outline are left as the previous call set them.
BeginCallKeep(self) == self

\* The list of the previous call is emptied and used again
\* (self.outline.clear()): no new list is made.
BeginCallInPlace(self) == [self EXCEPT !.title = UntitledDocument, !.outline = << >>]

\* lines 329-330: the instance after the reset that begins a call;
\* self.outline = [] binds a list that did not exist before
BeginCall(self) ==
    [self EXCEPT !.title = UntitledDocument, !.outline = << >>, !.outline_id = @ + 1]

\* lines 443-449: what the call leaves when the loop has made these entries
Returning(self, sorted, title, analyzed, entries) ==
    [self |-> [self EXCEPT !.title = title,
                           !.outline = Outline(entries),
                           !.font_styles_map = analyzed.font_styles_map,
                           !.general_font_info = analyzed.general_font_info],
     text_lines_data |-> sorted,
     lines |-> [k \in 1..Len(entries) |-> entries[k].line]]

\* Step 3 with the title found
FindHeadings(self, sorted, lines, analyzed, title) ==
    Returning(self, sorted, title, analyzed,
              ClassifyLines(lines, 1, title, analyzed.font_styles_map,
                            analyzed.general_font_info, << >>))

\* Step 2 with the font profile built
FindTitle(self, sorted, lines, analyzed) ==
    FindHeadings(self, sorted, lines, analyzed,
                 DetectTitle(lines, analyzed.general_font_info))

\* lines 339-449 on the sorted list
ProcessLines(self, sorted, lines) ==
    FindTitle(self, sorted, lines,
              AnalyzeFontProperties(lines, self.font_styles_map, self.general_font_info))

\* lines 332-449 after the reset
ProcessInput(self, text_lines_data, sorted) ==
    IF text_lines_data = << >>
    THEN [self |-> self, text_lines_data |-> text_lines_data, lines |-> << >>]
    ELSE ProcessLines(self, sorted, [i \in 1..Len(sorted) |-> WithFacts(sorted[i])])

\* extract_outline: the instance after the call, the caller's list after it,
\* and for each outline entry the index of its line in that list
ExtractOutlineCall(self0, text_lines_data) ==
    ProcessInput(BeginCall(self0), text_lines_data, SortedInput(text_lines_data))

\* OutlineExtractor.__init__; outline_id is the identity of the list that
\* self.outline is bound to, the lists of one instance numbered as it makes
\* them
NewExtractor ==
    [title |-> UntitledDocument, outline |-> << >>, outline_id |-> 0,
     font_styles_map |-> << >>, general_font_info |-> << >>]

(***************************************************************************)
(* The caller (main.process_pdf) and the extractor.                        *)
(*                                                                         *)
(*   text_lines_data  the caller's list of line records (text_blocks)      *)
(*   extractor        the fields of the OutlineExtractor instance          *)
(*   result           what the last call returned: None, or                *)
(*                    <<[title, outline]>>                                 *)
(*   pc               "collect": the caller is building the list;          *)
(*                    "ready": the list is complete; "done": the call      *)
(*                    has returned                                         *)
(*   fed              the number of records appended so far                *)
(*   batch            the run of the batch driver (main): files, the PDF   *)
(*                    files of the input directory in the order of the     *)
(*                    loop; at, the index of the file the loop is at;      *)
(*                    written, the indices of the files whose output file  *)
(*                    has been written.  In a batch run pc is "loop" at    *)
(*                    the head of the loop, "aborted" when an exception    *)
(*                    has ended the program, "exit" after the loop         *)
(* and, kept only to state properties:                                     *)
(*   passed           the list as it was when the last call was made       *)
(*   entry_lines      for each outline entry of the last call, the index   *)
(*                    in text_lines_data of the line it was made from      *)
(*   earlier          None, or the input and the result of the run before  *)
(*                    the records were fed again in another order          *)
(*   lists            the outline lists the calls of the instance have     *)
(*                    returned, by identity: what each holds now           *)
(***************************************************************************)
VARIABLES text_lines_data, extractor, result, pc, fed, passed, entry_lines, earlier,
          batch, lists

vars == <<text_lines_data, extractor, result, pc, fed, passed, entry_lines, earlier,
          batch, lists>>

\* the calls one instance takes
MaxCalls == 3

\* no list has been returned
NoLists == << >>

\* no batch run: the caller of the extractor is not the batch driver
NoBatch == [files |-> << >>, at |-> 1, written |-> {}]

Init ==
    /\ text_lines_data = << >>
    /\ extractor = NewExtractor
    /\ result = None
    /\ pc = "collect"
    /\ fed = 0
    /\ passed = << >>
    /\ entry_lines = << >>
    /\ earlier = None
    /\ batch = NoBatch
    /\ lists = NoLists

\* all_lines_data.append({...}) for a line of the corpus
AppendLine(corpus) ==
    /\ pc = "collect"
    /\ fed < MaxLines
    /\ \E r \in corpus : text_lines_data' = Append(text_lines_data, r)
    /\ fed' = fed + 1
    /\ UNCHANGED <<extractor, result, pc, passed, entry_lines, earlier, batch, lists>>

\* title, outline = extractor.extract_outline(text_blocks)
ExtractOutline ==
    /\ pc \in {"collect", "ready"}
    /\ extractor.outline_id < MaxCalls
    /\ \E call \in {ExtractOutlineCall(extractor, text_lines_data)} :
          /\ extractor' = call.self
          /\ text_lines_data' = call.text_lines_data
          /\ result' = Some([title |-> call.self.title, outline |-> call.self.outline])
          /\ entry_lines' = call.lines
          /\ lists' = (call.self.outline_id :> call.self.outline) @@ lists
    /\ passed' = text_lines_data
    /\ pc' = "done"
    /\ UNCHANGED <<fed, earlier, batch>>

\* the caller starts the list of another document and keeps the extractor;
\* it keeps none of the lists the calls returned
ReuseExtractor ==
    /\ pc = "done"
    /\ text_lines_data' = << >>
    /\ result' = None
    /\ pc' = "collect"
    /\ passed' = << >>
    /\ entry_lines' = << >>
    /\ lists' = NoLists
    /\ UNCHANGED <<extractor, fed, earlier, batch>>

\* the caller starts the list of another document, and keeps the extractor
\* and the lists the calls returned
KeepResult ==
    /\ pc = "done"
    /\ text_lines_data' = << >>
    /\ result' = None
    /\ pc' = "collect"
    /\ passed' = << >>
    /\ entry_lines' = << >>
    /\ UNCHANGED <<extractor, fed, earlier, batch, lists>>

\* the sequences that hold the records of seq in another or the same order
Reorderings(seq) ==
    {[i \in 1..Len(seq) |-> seq[p[i]]] : p \in Permutations(1..Len(seq))}

\* the caller feeds the records of the last run again, in any order, to a new
\* extractor, as process_pdf makes one for each document
FeedAgain ==
    /\ pc = "done"
    /\ earlier' = Some([input |-> passed, result |-> result[1]])
    /\ text_lines_data' \in Reorderings(passed)
    /\ extractor' = NewExtractor
    /\ result' = None
    /\ pc' = "ready"
    /\ passed' = << >>
    /\ entry_lines' = << >>
    /\ lists' = NoLists
    /\ UNCHANGED <<fed, batch>>

\* documents of the first corpus, any number of them through one extractor
Next ==
    \/ AppendLine(LineRecords)
    \/ ExtractOutline
    \/ ReuseExtractor

Spec == Init /\ [][Next]_vars

\* documents of the second corpus, each fed a second time in another order
NextCases ==
    \/ AppendLine(CaseRecords)
    \/ ExtractOutline
    \/ FeedAgain

SpecCases == Init /\ [][NextCases]_vars

\* documents of the third corpus, any number of them through one extractor
NextPaper ==
    \/ AppendLine(PaperRecords)
    \/ ExtractOutline
    \/ ReuseExtractor

SpecPaper == Init /\ [][NextPaper]_vars

\* documents of title, heading and body lines, any number of them through
\* one extractor, the caller keeping what every call returned
NextReuse ==
    \/ AppendLine(ReuseRecords)
    \/ ExtractOutline
    \/ KeepResult

SpecReuse == Init /\ [][NextReuse]_vars

(***************************************************************************)
(* The batch driver (main.py, lines 40-49) and process_pdf.  What PyMuPDF  *)
(* does with a file is not in the program: a file either cannot be opened  *)
(* (fitz.open raises, which open_pdf catches), or opens and raises while   *)
(* its pages are read (as page_count does for an encrypted file), or       *)
(* gives its line records.                                                 *)
(***************************************************************************)

\* the PDF files of the model: opens tells whether fitz.open succeeds, blocks
\* is None when reading the pages raises and else the line records read
PdfFiles ==
    { [opens |-> FALSE, blocks |-> None],
      [opens |-> TRUE,  blocks |-> None],
      [opens |-> TRUE,  blocks |-> Some(<< >>)],
      [opens |-> TRUE,
       blocks |-> Some(<<Line(IntroductionNumText, TimesBold, 1400, <<72, 120, 200, 134>>, 1),
                         Line(TitleText, TimesBold, 2000, <<72, 40, 500, 60>>, 1)>>)] }

\* the most PDF files in the input directory
MaxFiles == 3

\* the sequences of n files
FileLists(n) == [1..n -> PdfFiles]

\* pdf_files as os.listdir gives them
InitBatch ==
    /\ text_lines_data = << >>
    /\ extractor = NewExtractor
    /\ result = None
    /\ pc = "loop"
    /\ fed = 0
    /\ passed = << >>
    /\ entry_lines = << >>
    /\ earlier = None
    /\ lists = NoLists
    /\ \E n \in 0..MaxFiles :
          \E files \in FileLists(n) : batch = [files |-> files, at |-> 1, written |-> {}]

\* the file the loop is at
CurrentFile == batch.files[batch.at]

\* process_pdf, lines 11-14: open_pdf returns False, the file is skipped
OpenFails ==
    /\ pc = "loop"
    /\ batch.at <= Len(batch.files)
    /\ ~CurrentFile.opens
    /\ batch' = [batch EXCEPT !.at = @ + 1]
    /\ UNCHANGED <<text_lines_data, extractor, result, pc, fed, passed, entry_lines,
                   earlier, lists>>

\* process_pdf, line 17: extract_blocks_with_metadata raises; neither
\* process_pdf nor the loop of lines 45-49 has a handler, the program ends
ExtractBlocksRaises ==
    /\ pc = "loop"
    /\ batch.at <= Len(batch.files)
    /\ CurrentFile.opens
    /\ CurrentFile.blocks = None
    /\ pc' = "aborted"
    /\ UNCHANGED <<text_lines_data, extractor, result, fed, passed, entry_lines, earlier,
                   batch, lists>>

\* process_pdf, lines 17-20: the line records are read and a new extractor
\* is made
ExtractBlocks ==
    /\ pc = "loop"
    /\ batch.at <= Len(batch.files)
    /\ CurrentFile.opens
    /\ CurrentFile.blocks # None
    /\ text_lines_data' = CurrentFile.blocks[1]
    /\ extractor' = NewExtractor
    /\ result' = None
    /\ pc' = "ready"
    /\ lists' = NoLists
    /\ UNCHANGED <<fed, passed, entry_lines, earlier, batch>>

\* process_pdf, lines 23-30: the output file of the document is written
WriteOutput ==
    /\ pc = "done"
    /\ batch.at <= Len(batch.files)
    /\ batch' = [batch EXCEPT !.written = @ \cup {batch.at}, !.at = @ + 1]
    /\ pc' = "loop"
    /\ UNCHANGED <<text_lines_data, extractor, result, fed, passed, entry_lines, earlier,
                   lists>>

\* the loop of lines 45-49 has taken every file
ExitBatch ==
    /\ pc = "loop"
    /\ batch.at > Len(batch.files)
    /\ pc' = "exit"
    /\ UNCHANGED <<text_lines_data, extractor, result, fed, passed, entry_lines, earlier,
                   batch, lists>>

\* a batch run
NextBatch ==
    \/ OpenFails
    \/ ExtractBlocksRaises
    \/ ExtractBlocks
    \/ ExtractOutline
    \/ WriteOutput
    \/ ExitBatch

SpecBatch == InitBatch /\ [][NextBatch]_vars

(***************************************************************************)
(* Properties of extract_outline.  In a state with pc = "done" the call    *)
(* has returned: passed is the list as the caller gave it, text_lines_data *)
(* that list after the call, result the pair returned, and entry_lines[k]  *)
(* the position in text_lines_data of the line that made outline entry k.  *)
(***************************************************************************)

\* the pair (title, outline) the call returned
Returned == result[1]

\* the line that made the k-th entry of the outline
SourceLine(k) == text_lines_data[entry_lines[k]]

\* a = b for finite rationals
RatEq(a, b) == a.num * b.den = b.num * a.den

\* the key of the deduplication, (text, level, page)
EntryKey(entry) == <<entry.text, entry.level, entry.page>>

\* C1: the outline returned by extract_outline never holds two entries with
\* the same (text, level, page), also when the same heading text is on
\* several lines of one page.
NoDuplicateEntries ==
    pc = "done" =>
        \A i, j \in 1..Len(Returned.outline) :
            i # j => EntryKey(Returned.outline[i]) # EntryKey(Returned.outline[j])

\* Two lines of one page are headings of the same level with the same
\* cleaned text, and the outline holds their entry.
RepeatedHeadingReturned ==
    /\ pc = "done"
    /\ \E i, j \in 1..Len(text_lines_data) :
          LET a  == WithFacts(text_lines_data[i])
              b  == WithFacts(text_lines_data[j])
              la == IsHeading(a, extractor.font_styles_map, extractor.general_font_info)
              lb == IsHeading(b, extractor.font_styles_map, extractor.general_font_info)
          IN  /\ i < j
              /\ a.page = b.page
              /\ Facts(a).cleaned_text = Facts(b).cleaned_text
              /\ la # NoHeading
              /\ la = lb
              /\ ~IsSkipped(a, Returned.title)
              /\ i \in Range(entry_lines)
              /\ [level |-> la, text |-> Facts(a).cleaned_text, page |-> a.page]
                     \in Range(Returned.outline)

\* C2: the same records fed in any order give the same (title, outline).
\* earlier holds the list and the result of the run before this one, which
\* had the same records.
OrderIndependent ==
    pc = "done" /\ earlier # None => Returned = earlier[1].result

\* C3: a line whose text contains "journal pre-proof" in any casing is not
\* the title, gives no text to the title and makes no outline entry.
WatermarkSuppressed ==
    pc = "done" =>
        \A i \in 1..Len(text_lines_data) :
            Contains(Lower(text_lines_data[i].text), JournalPreProof) =>
                /\ ~Contains(Returned.title, Strip(text_lines_data[i].text))
                /\ i \notin Range(entry_lines)

\* C4: the call on an empty list returns "Untitled Document" and an empty
\* outline, also on an instance that has processed a document before.
EmptyInputDefault ==
    pc = "done" /\ passed = << >> =>
        result = Some([title |-> UntitledDocument, outline |-> << >>])

\* The call on an empty list has returned on an instance that holds the font
\* profile of an earlier document, whose call had set another title.
EmptyAfterDocument ==
    /\ pc = "done"
    /\ passed = << >>
    /\ extractor.general_font_info # << >>
    /\ extractor.title = UntitledDocument
    /\ extractor.outline = << >>

\* C5: when the profile has both an H1 and an H2 signature, its sizes are
\* H1 >= H2 >= H3 and its indentations H1 <= H2 <= H3.
LevelOrdering ==
    LET m == extractor.font_styles_map
    IN  pc = "done" /\ m # << >> /\ m.H1 # None /\ m.H2 # None =>
            /\ RatLeq(m.H2_size, m.H1_size)
            /\ RatLeq(m.H3_size, m.H2_size)
            /\ RatLeq(m.H1_x0_min, m.H2_x0_min)
            /\ RatLeq(m.H2_x0_min, m.H3_x0_min)

\* the smallest x0 of the lines
MinX0(lines) == MinOf({lines[i].bbox[1] : i \in 1..Len(lines)})

\* the first line of Scenario A: bold, size 20, the title text, page 1, y0 = 40
IsScenarioTitleLine(line_data) ==
    /\ line_data.text = TitleText
    /\ IsBold(line_data.font_name)
    /\ line_data.font_size = 2000
    /\ line_data.page = 1
    /\ line_data.bbox[2] = 40

\* the second line of Scenario A in a document: bold, size 14,
\* "1. Introduction", page 1, y0 = 120, x0 the smallest of the document
IsScenarioIntroductionLine(line_data, lines) ==
    /\ line_data.text = IntroductionDotText
    /\ IsBold(line_data.font_name)
    /\ line_data.font_size = 1400
    /\ line_data.page = 1
    /\ line_data.bbox[2] = 120
    /\ line_data.bbox[1] = MinX0(lines)

\* the document of Scenario A
IsScenarioA(lines) ==
    /\ Len(lines) = 2
    /\ \E i, j \in 1..2 :
          /\ i # j
          /\ IsScenarioTitleLine(lines[i])
          /\ IsScenarioIntroductionLine(lines[j], lines)

\* C6 (Scenario A): the title line and "1. Introduction" give the title
\* line's text as title and the outline of the one entry
\* {level: H1, text: "Introduction", page: 1}.
ScenarioA ==
    pc = "done" /\ IsScenarioA(passed) =>
        Returned = [title   |-> TitleText,
                    outline |-> <<[level |-> "H1", text |-> IntroductionText,
                                   page |-> 1]>>]

\* the document of Scenario B: the lines of Scenario A and a bold line of
\* size 12 "2.1 Related Work" on page 2 whose x0 is the profile's H2 x0_min
IsScenarioB(lines, font_styles_map) ==
    /\ Len(lines) = 3
    /\ \E i, j, k \in 1..3 :
          /\ {i, j, k} = 1..3
          /\ IsScenarioTitleLine(lines[i])
          /\ IsScenarioIntroductionLine(lines[j], lines)
          /\ lines[k].text = RelatedWorkNumText
          /\ IsBold(lines[k].font_name)
          /\ lines[k].font_size = 1200
          /\ lines[k].page = 2
          /\ RatEq(Rat(lines[k].bbox[1], 1), font_styles_map.H2_x0_min)

\* C7 (Scenario B): with the line "2.1 Related Work" the outline has the
\* entry {level: H2, text: "Related Work", page: 2} after the H1 entry.
ScenarioB ==
    pc = "done" /\ passed # << >> /\ IsScenarioB(passed, extractor.font_styles_map) =>
        \E i, j \in 1..Len(Returned.outline) :
            /\ i < j
            /\ Returned.outline[i].level = "H1"
            /\ Returned.outline[j] =
                   [level |-> "H2", text |-> RelatedWorkText, page |-> 2]

\* the last page of the document
LastPage(lines) == MaxOf({lines[i].page : i \in 1..Len(lines)})

\* the line of Scenario C in a document with this profile: bold, the text
\* "References", the H1 size, the H1 indentation, on the last page
IsScenarioReferencesLine(line_data, lines, font_styles_map) ==
    /\ Strip(line_data.text) = ReferencesText
    /\ IsBold(line_data.font_name)
    /\ RatEq(Rat(RoundSize(line_data.font_size), 1), font_styles_map.H1_size)
    /\ RatEq(Rat(line_data.bbox[1], 1), font_styles_map.H1_x0_min)
    /\ line_data.page = LastPage(lines)

\* C8 (Scenario C): a bold line "References" of the H1 size at the H1
\* indentation on the last page of any document gives the entry
\* {level: H1, text: "References", page: last_page}.
ScenarioC ==
    pc = "done" =>
        \A i \in 1..Len(text_lines_data) :
            IsScenarioReferencesLine(text_lines_data[i], text_lines_data,
                                     extractor.font_styles_map)
            => [level |-> "H1", text |-> ReferencesText,
                page |-> LastPage(text_lines_data)] \in Range(Returned.outline)

\* A document of several lines, one of them the line of Scenario C, has been
\* processed.
ReferencesLineProcessed ==
    /\ pc = "done"
    /\ Len(text_lines_data) >= 2
    /\ \E i \in 1..Len(text_lines_data) :
          /\ IsScenarioReferencesLine(text_lines_data[i], text_lines_data,
                                      extractor.font_styles_map)
          /\ i \in Range(entry_lines)

\* the text is one or more of the digits 0 to 9
IsDigitsOnly(text) ==
    /\ text # << >>
    /\ \A i \in 1..Len(text) :
          text[i] \in {"0", "1", "2", "3", "4", "5", "6", "7", "8", "9"}

\* the line is a page number: digits only after trimming, on a page after
\* the first
IsPageNumberLine(line_data) ==
    IsDigitsOnly(Strip(line_data.text)) /\ line_data.page > 1

\* C9: a line whose trimmed text is digits only on a page greater than 1
\* makes no outline entry, whatever its font, size or position.
PageNumberSuppressed ==
    pc = "done" =>
        \A k \in 1..Len(entry_lines) : ~IsPageNumberLine(SourceLine(k))

\* A document with a bold page-number line of three digits, long enough for
\* the length filter and in the style of a heading that is in the outline,
\* has been processed.
PageNumberLineProcessed ==
    /\ pc = "done"
    /\ Returned.outline # << >>
    /\ \E i \in 1..Len(text_lines_data) :
          /\ IsPageNumberLine(text_lines_data[i])
          /\ Len(Strip(text_lines_data[i].text)) >= 3
          /\ IsBold(text_lines_data[i].font_name)
          /\ \E k \in 1..Len(entry_lines) :
                /\ SourceLine(k).font_name = text_lines_data[i].font_name
                /\ SourceLine(k).font_size = text_lines_data[i].font_size

\* line a is not after line b in reading order: page, then y0
ReadsBefore(a, b) ==
    \/ a.page < b.page
    \/ a.page = b.page /\ a.bbox[2] <= b.bbox[2]

\* C10: the outline is in reading order, whatever the order of the input:
\* of two entries the earlier comes from a line with a smaller page, or the
\* same page and a smaller or equal y0.
ReadingOrder ==
    pc = "done" =>
        \A i, j \in 1..Len(entry_lines) :
            i < j => ReadsBefore(SourceLine(i), SourceLine(j))

\* The lines came in another order than reading order, and those of two
\* entries came in the reverse of the order of the entries.
UnorderedInputReturned ==
    /\ pc = "done"
    /\ Len(Returned.outline) >= 2
    /\ \E i, j \in 1..Len(passed) :
          /\ i < j
          /\ ~ReadsBefore(passed[i], passed[j])
          /\ \E k, l \in 1..Len(entry_lines) :
                k < l /\ SourceLine(l) = passed[i] /\ SourceLine(k) = passed[j]

\* the file gives its line records: it opens and its pages are read
IsExtracted(file) == file.opens /\ file.blocks # None

\* C11: in a batch run a document whose extraction fails is skipped and
\* every other document still gets its output file; a failure never aborts
\* the run.  When the program has ended it has not been ended by an
\* exception, and every file that gave its line records has its output.
BatchSkipsFailures ==
    pc \in {"exit", "aborted"} =>
        /\ pc # "aborted"
        /\ \A i \in 1..Len(batch.files) :
              IsExtracted(batch.files[i]) => i \in batch.written

\* C12: extract_outline is purely functional over its input: after the call
\* the caller's list holds the same records in the same order as before it.
InputUnchanged ==
    pc = "done" => text_lines_data = passed

\* the font-signature group of a line: font name, rounded size and boldness
GroupOf(line_data) ==
    [font_name |-> line_data.font_name,
     size      |-> RoundSize(line_data.font_size),
     is_bold   |-> IsBold(line_data.font_name)]

\* the group of the line is the signature of H1, H2 or H3 in the profile
IsAssignedGroup(line_data, font_styles_map) ==
    Some(GroupOf(line_data)) \in
        {font_styles_map.H1, font_styles_map.H2, font_styles_map.H3}

\* the text of the line contains "journal pre-proof" in any casing
HasWatermarkMarker(line_data) == Contains(Lower(line_data.text), JournalPreProof)

\* the group of the line is on more than 70% of the pages of the document
IsUbiquitousGroup(line_data, lines) ==
    10 * Cardinality({lines[j].page : j \in {j \in 1..Len(lines) :
                                              GroupOf(lines[j]) = GroupOf(line_data)}})
        > 7 * Cardinality({lines[j].page : j \in 1..Len(lines)})

\* C13 as stated: a group with a line that contains "journal pre-proof" is
\* never assigned to H1, H2 or H3, on however many pages the group appears.
WatermarkGroupNeverAssigned ==
    pc = "done" /\ passed # << >> =>
        \A i \in 1..Len(text_lines_data) :
            HasWatermarkMarker(text_lines_data[i])
            => ~IsAssignedGroup(text_lines_data[i], extractor.font_styles_map)

\* C13 as amended: a group that appears on more than 70% of the pages of the
\* document and has a line that contains "journal pre-proof" is never
\* assigned to H1, H2 or H3, whatever its size or boldness.
UbiquitousWatermarkGroupNeverAssigned ==
    pc = "done" /\ passed # << >> =>
        \A i \in 1..Len(text_lines_data) :
            /\ HasWatermarkMarker(text_lines_data[i])
            /\ IsUbiquitousGroup(text_lines_data[i], text_lines_data)
            => ~IsAssignedGroup(text_lines_data[i], extractor.font_styles_map)

\* A document has been processed in which the group of a watermark line is on
\* more than 70% of the pages, is bold and has the largest size, is not
\* assigned, and no other group is.
UbiquitousWatermarkGroupDiscarded ==
    /\ pc = "done"
    /\ passed # << >>
    /\ extractor.font_styles_map.H1 = None
    /\ \E i \in 1..Len(text_lines_data) :
          /\ HasWatermarkMarker(text_lines_data[i])
          /\ IsUbiquitousGroup(text_lines_data[i], text_lines_data)
          /\ IsBold(text_lines_data[i].font_name)
          /\ RoundSize(text_lines_data[i].font_size)
                 = extractor.general_font_info.max_overall_font_size

\* the line passes the rejection stages and matches the numbered pattern
IsNumberedCandidate(line_data) ==
    /\ MatchNumbered(Strip(line_data.text))
    /\ ~IsFilteredOut(Strip(line_data.text), line_data.page)

\* the level the dots of the prefix give: none H1, one H2, two or more H3
LevelOfDots(line_data) ==
    LET dots == CountIn(NumberedGroup1(Strip(line_data.text)), {"."})
    IN  IF dots = 0 THEN "H1" ELSE IF dots = 1 THEN "H2" ELSE "H3"

\* the size and style test of a numbered line: at least 90% of the body font
\* size, and bold or in the learned style of a level
PassesNumberedStyle(line_data, font_styles_map, general_font_info) ==
    /\ 10 * RoundSize(line_data.font_size) >= 9 * general_font_info.body_font_size
    /\ IsBold(line_data.font_name) \/ IsAssignedGroup(line_data, font_styles_map)

\* the indentation test: x0 within 25 units of the x0_min of the level
PassesIndentation(line_data, level, font_styles_map) ==
    LET x0_min == font_styles_map[level \o "_x0_min"]
        d      == line_data.bbox[1] * x0_min.den - x0_min.num
    IN  d < 25 * x0_min.den /\ 0 - d < 25 * x0_min.den

\* C14: for a line that passes the rejection stages and matches the numbered
\* pattern the classifier returns the level of the dots of its prefix or
\* None, and None whenever the size and style test or the indentation test
\* of that level fails; it never returns a level of the later stages.
NumberedLevelOrNone ==
    pc = "done" /\ passed # << >> =>
        \A i \in 1..Len(text_lines_data) :
            LET line_data     == text_lines_data[i]
                heading_level == IsHeading(WithFacts(line_data), extractor.font_styles_map,
                                           extractor.general_font_info)
            IN  IsNumberedCandidate(line_data) =>
                    /\ heading_level \in {LevelOfDots(line_data), NoHeading}
                    /\ \/ ~PassesNumberedStyle(line_data, extractor.font_styles_map,
                                                extractor.general_font_info)
                       \/ ~PassesIndentation(line_data, LevelOfDots(line_data),
                                              extractor.font_styles_map)
                       => heading_level = NoHeading

\* A document has been processed with a numbered line that fails a test of
\* its level, gets None, and has the style stage 3 accepts for a level.
NumberedLineRejected ==
    /\ pc = "done"
    /\ passed # << >>
    /\ \E i \in 1..Len(text_lines_data) :
          LET line_data == text_lines_data[i]
          IN  /\ IsNumberedCandidate(line_data)
              /\ \/ ~PassesNumberedStyle(line_data, extractor.font_styles_map,
                                          extractor.general_font_info)
                 \/ ~PassesIndentation(line_data, LevelOfDots(line_data),
                                        extractor.font_styles_map)
              /\ IsHeading(WithFacts(line_data), extractor.font_styles_map,
                           extractor.general_font_info) = NoHeading
              /\ \E level \in {"H1", "H2", "H3"} :
                    IsStyledLevel(WithFacts(line_data), level, 10,
                                  extractor.font_styles_map)
              /\ i \notin Range(entry_lines)

\* the text matches a suppression pattern: a watermark or manuscript marker,
\* a metadata-field prefix, an email address, an (Author, Year) citation or
\* a math expression
HasSuppressionPattern(text) ==
    \/ \E marker \in WatermarkMarkers : Contains(Lower(Strip(text)), marker)
    \/ IsMetadataField(Lower(Strip(text)))
    \/ HasEmail(Lower(Strip(text)))
    \/ HasAuthorYear(Lower(Strip(text)))
    \/ IsMathExpression(Strip(text))

\* no line of the document satisfies the primary title rule
IsFallbackUsed ==
    ~\E i \in 1..Len(text_lines_data) :
        IsTitle(WithFacts(text_lines_data[i]), extractor.general_font_info)

\* C15: when the title comes from the fallback rule, no line that matches a
\* suppression pattern is the seed of the title or appended to it: the
\* title holds the text of no such line.
FallbackTitleSuppressed ==
    pc = "done" /\ passed # << >> /\ IsFallbackUsed =>
        \A i \in 1..Len(text_lines_data) :
            HasSuppressionPattern(text_lines_data[i].text) =>
                ~Contains(Returned.title, Strip(text_lines_data[i].text))

\* the trimmed text of the line equals the title but for the case of letters
EqualsTitle(line_data, title) == Lower(Strip(line_data.text)) = Lower(title)

\* C16: no entry of the outline comes from a line whose trimmed text equals
\* the detected title case-insensitively, on any page and however often
\* the text of the title is repeated.
TitleLinesSkipped ==
    pc = "done" =>
        \A k \in 1..Len(Returned.outline) : ~EqualsTitle(SourceLine(k), Returned.title)

\* A document has been processed in which the text of the title is on page
\* 1 and again, in capitals, on a later page in a style the classifier
\* takes for a heading, and the outline has entries.
RunningTitleProcessed ==
    /\ pc = "done"
    /\ Returned.outline # << >>
    /\ \E i, j \in 1..Len(text_lines_data) :
          /\ text_lines_data[i].page = 1
          /\ text_lines_data[j].page > 1
          /\ Strip(text_lines_data[i].text) = Returned.title
          /\ Strip(text_lines_data[j].text) # Returned.title
          /\ EqualsTitle(text_lines_data[j], Returned.title)
          /\ IsHeading(WithFacts(text_lines_data[j]), extractor.font_styles_map,
                       extractor.general_font_info) # NoHeading

\* what a new instance returns for the document
FreshResult(document) ==
    LET call == ExtractOutlineCall(NewExtractor, document)
    IN  [title |-> call.self.title, outline |-> call.self.outline]

\* C17: in any sequence of calls on one instance each call returns the
\* title and the outline a new instance returns for its document, and the
\* list an earlier call returned is the same after every later step.
StatelessBetweenDocuments ==
    /\ [](pc = "done" => Returned = FreshResult(passed))
    /\ [][\A id \in DOMAIN lists : id \in DOMAIN lists' /\ lists'[id] = lists[id]]_vars

\* The third call of one instance has returned; the two calls before it
\* returned outlines that differ from each other, and its document has a
\* heading that the document before it had too.
ThirdCallReturned ==
    /\ pc = "done"
    /\ extractor.outline_id = 3
    /\ DOMAIN lists = {1, 2, 3}
    /\ lists[1] # << >>
    /\ lists[2] # lists[1]
    /\ \E k \in 1..Len(lists[2]), j \in 1..Len(lists[3]) : lists[2][k] = lists[3][j]
    /\ lists[3] = Returned.outline
====
